---- MODULE Spec2Model ----
\* A model of examples/mnist_ddp.py: the per-rank control flow of main(), train()
\* and test(), run by NumRanks processes that meet only in the collective
\* operations of the framework (process-group rendezvous, the DDP constructor,
\* the gradient all-reduce).  Every framework call is an opaque step that may
\* raise; the script catches nothing.
EXTENDS Integers, Sequences, FiniteSets, TLC

\* ---------------------------------------------------------------- bounds
NumRanks == 2
MaxEpochs == 2
MaxBatches == 2
MaxTestBatches == 1

\* ------------------------------------------------------ program constants
\* --lr default 3e-4 and --gamma default 0.7, kept as exact fractions
LrNum == 3
LrDen == 10000
GammaNum == 7
GammaDen == 10
\* --log-interval default
log_interval == 10

Ranks == 0 .. (NumRanks - 1)

VARIABLES
    args,          \* the parsed command line (the launcher gives every rank the same)
    env,           \* what the environment decides: CUDA present, loader lengths, ...
    pc,            \* pc[r]: the statement rank r executes next
    failedAt,      \* failedAt[r]: the statement at which rank r raised ("" if none)
    use_cuda, device, train_kwargs, test_kwargs,
    model, optimizer, scheduler,
    epoch, batch_idx, fetched, test_idx,
    lr,            \* lr[r][o]: the learning rate held by optimizer object o of rank r
    params,        \* params[r]: version of rank r's model parameters
    coll,          \* coll[r]: the collectives rank r has entered, in order
    ckpt,          \* the ranks that wrote 'mnist_cnn.pt', in order
    testSnap,      \* params and collective count of a rank when its test() began
    trace          \* trace[r]: the framework calls rank r has made, in order

setupVars == <<use_cuda, device, train_kwargs, test_kwargs>>
objVars == <<model, optimizer, scheduler>>
loopVars == <<epoch, batch_idx, fetched, test_idx>>
fwVars == <<lr, params, coll, ckpt, testSnap>>
vars == <<args, env, pc, failedAt, setupVars, objVars, loopVars, fwVars, trace>>

NoLr == <<0, 0>>
Optimizers == {"adamw", "msamp_opt"}

\* One framework call of rank r, as it is recorded in the rank's trace.
Ev(r, op, obj, dev, rate) ==
    [op |-> op, epoch |-> epoch[r], batch |-> batch_idx[r], obj |-> obj, dev |-> dev, lr |-> rate]

\* The same, for a call made inside test(): numbered by the test batch.
TestEv(r, op, obj, dev) ==
    [op |-> op, epoch |-> epoch[r], batch |-> test_idx[r], obj |-> obj, dev |-> dev, lr |-> NoLr]

Goto(r, l) == pc' = [pc EXCEPT ![r] = l]
Emit(r, e) == trace' = [trace EXCEPT ![r] = Append(@, e)]
EmitAll(r, es) == trace' = [trace EXCEPT ![r] = @ \o es]

\* dist.get_rank(): ranks are numbered from 0; a single node, so local_rank is the same
get_rank(r) == r
local_rank(r) == r

\* nn.parallel.DistributedDataParallel(m) and its .module
DDP(m) == IF m = "net" THEN "ddp(net)" ELSE "ddp(msamp_model)"
module(m) == IF m = "ddp(net)" THEN "net" ELSE IF m = "ddp(msamp_model)" THEN "msamp_model" ELSE m

\* hasattr(optimizer, 'all_reduce_grads'): AdamW has none; whether the optimizer
\* msamp.initialize returns has one is the library's choice (env)
hasattr_all_reduce_grads(o) == o = "msamp_opt" /\ env.msamp_all_reduce

\* A collective is entered by appending its tag; it returns once every rank
\* has entered as many collectives as this rank.
EnterCollective(r, tag) == coll' = [coll EXCEPT ![r] = Append(@, tag)]
CollectiveComplete(r) == \A q \in Ranks : Len(coll[q]) >= Len(coll[r])

Init ==
    /\ args \in [epochs : 0 .. MaxEpochs, dry_run : BOOLEAN, save_model : BOOLEAN,
                 no_cuda : BOOLEAN, enable_msamp : BOOLEAN]
    /\ env \in [cuda_available : BOOLEAN, msamp_all_reduce : BOOLEAN,
                n_batches : 1 .. MaxBatches, n_test : 1 .. MaxTestBatches]
    \* msamp_all_reduce describes the optimizer msamp.initialize returns: none without it
    /\ env.msamp_all_reduce => args.enable_msamp
    /\ pc = [r \in Ranks |-> "parse_args"]
    /\ failedAt = [r \in Ranks |-> ""]
    /\ use_cuda = [r \in Ranks |-> FALSE]
    /\ device = [r \in Ranks |-> "unset"]
    /\ train_kwargs = [r \in Ranks |-> {}]
    /\ test_kwargs = [r \in Ranks |-> {}]
    /\ model = [r \in Ranks |-> "none"]
    /\ optimizer = [r \in Ranks |-> "none"]
    /\ scheduler = [r \in Ranks |-> "none"]
    /\ epoch = [r \in Ranks |-> 0]
    /\ batch_idx = [r \in Ranks |-> -1]
    /\ fetched = [r \in Ranks |-> 0]
    /\ test_idx = [r \in Ranks |-> 0]
    /\ lr = [r \in Ranks |-> [o \in Optimizers |-> NoLr]]
    /\ params = [r \in Ranks |-> 0]
    /\ coll = [r \in Ranks |-> <<>>]
    /\ ckpt = <<>>
    /\ testSnap = [r \in Ranks |-> [params |-> 0, ncoll |-> 0]]
    /\ trace = [r \in Ranks |-> <<>>]

\* ------------------------------------------------ control flow of main
\* Statements that only branch (if, for, break) are folded into the call before
\* them: these operators give the statement a rank reaches next.

\* variant: the rank test on the save is missing
Saves_EveryRank(r) == args.save_model

\* if args.save_model: if dist.get_rank() == 0: torch.save(...)
Saves(r) == args.save_model /\ get_rank(r) = 0
AfterLoop(r) == IF Saves(r) THEN "save_model" ELSE "done"

\* for epoch in range(1, args.epochs + 1): the next epoch, or past the loop
EpochLoop(r) ==
    IF epoch[r] < args.epochs
       THEN /\ epoch' = [epoch EXCEPT ![r] = @ + 1]
            /\ Goto(r, "set_epoch")
       ELSE /\ UNCHANGED epoch
            /\ Goto(r, AfterLoop(r))

\* variant: the rank test on the evaluation is missing
RunsTest_EveryRank(r) == TRUE

\* if dist.get_rank() == 0: test(model.module, device, test_loader)
RunsTest(r) == get_rank(r) = 0
AfterTrain(r) == IF RunsTest(r) THEN "test" ELSE "scheduler_step"

\* variant: only rank 0 honours dry_run
DryRunBreak_Rank0Only(r) == args.dry_run /\ get_rank(r) = 0

\* if args.dry_run: break
DryRunBreak(r) == args.dry_run

\* for batch_idx, (data, target) in enumerate(train_loader), entered with k batches
\* already fetched, after a whole iteration (afterIter) or from the top of train();
\* `calls` are the calls of the step that leads here.  train() returns when dry_run
\* breaks the loop or the loader is exhausted.
BatchLoop(r, k, afterIter, calls) ==
    IF (afterIter /\ DryRunBreak(r)) \/ k >= env.n_batches
       THEN /\ EmitAll(r, calls \o <<Ev(r, "train.return", "", "", NoLr)>>)
            /\ fetched' = [fetched EXCEPT ![r] = k]
            /\ UNCHANGED batch_idx
            /\ Goto(r, AfterTrain(r))
       ELSE /\ EmitAll(r, calls)
            /\ batch_idx' = [batch_idx EXCEPT ![r] = k]
            /\ fetched' = [fetched EXCEPT ![r] = k + 1]
            /\ Goto(r, "to_device")

\* variant: all_reduce_grads is called without the hasattr test
CallsAllReduceGrads_Always(r) == TRUE

\* if hasattr(optimizer, 'all_reduce_grads')
CallsAllReduceGrads(r) == hasattr_all_reduce_grads(optimizer[r])

\* if dist.get_rank() == 0: if batch_idx % args.log_interval == 0
LogsBatch(r) == get_rank(r) = 0 /\ batch_idx[r] % log_interval = 0

\* ------------------------------------------------------------ main: setup

\* args = parser.parse_args(); use_cuda = not args.no_cuda and cuda.is_available()
ParseArgs(r) ==
    /\ pc[r] = "parse_args"
    /\ use_cuda' = [use_cuda EXCEPT ![r] = (~args.no_cuda) /\ env.cuda_available]
    /\ Emit(r, Ev(r, "parse_args", "", "", NoLr))
    /\ Goto(r, "set_device")
    /\ UNCHANGED <<args, env, failedAt, device, train_kwargs, test_kwargs, objVars, loopVars, fwVars>>

\* torch.cuda.set_device(args.local_rank)
CudaSetDevice(r) ==
    /\ pc[r] = "set_device"
    /\ Emit(r, Ev(r, "cuda.set_device", "", "cuda", NoLr))
    /\ Goto(r, "init_process_group")
    /\ UNCHANGED <<args, env, failedAt, setupVars, objVars, loopVars, fwVars>>

\* dist.init_process_group(backend='nccl', init_method='env://'): the rendezvous
InitProcessGroup(r) ==
    /\ pc[r] = "init_process_group"
    /\ EnterCollective(r, <<"init_process_group", 0, -1>>)
    /\ Emit(r, Ev(r, "init_process_group", "", "nccl", NoLr))
    /\ Goto(r, "init_process_group_wait")
    /\ UNCHANGED <<args, env, failedAt, setupVars, objVars, loopVars, lr, params, ckpt, testSnap>>

InitProcessGroupReturn(r) ==
    /\ pc[r] = "init_process_group_wait"
    /\ CollectiveComplete(r)
    /\ Goto(r, "configure")
    /\ UNCHANGED <<args, env, failedAt, setupVars, objVars, loopVars, fwVars, trace>>

\* torch.manual_seed; device; train_kwargs / test_kwargs (cuda_kwargs only if use_cuda);
\* then `if args.local_rank == 0` chooses the download or goes on to the synchronize
Configure(r) ==
    /\ pc[r] = "configure"
    /\ device' = [device EXCEPT ![r] = IF use_cuda[r] THEN "cuda" ELSE "cpu"]
    /\ train_kwargs' = [train_kwargs EXCEPT ![r] =
            {"batch_size"} \cup (IF use_cuda[r] THEN {"num_workers", "pin_memory"} ELSE {})]
    /\ test_kwargs' = [test_kwargs EXCEPT ![r] =
            {"batch_size"} \cup (IF use_cuda[r] THEN {"num_workers", "pin_memory"} ELSE {})]
    /\ Emit(r, Ev(r, "manual_seed", "", "", NoLr))
    /\ Goto(r, IF local_rank(r) = 0 THEN "dataset_first" ELSE "cuda_synchronize")
    /\ UNCHANGED <<args, env, failedAt, use_cuda, objVars, loopVars, fwVars>>

\* (local rank 0) dataset1 = datasets.MNIST('./data', train=True, download=True, ...)
DatasetFirst(r) ==
    /\ pc[r] = "dataset_first"
    /\ Emit(r, Ev(r, "datasets.MNIST", "train,download", "", NoLr))
    /\ Goto(r, "cuda_synchronize")
    /\ UNCHANGED <<args, env, failedAt, setupVars, objVars, loopVars, fwVars>>

\* torch.cuda.synchronize(); then `if args.local_rank > 0` chooses the plain load
CudaSynchronize(r) ==
    /\ pc[r] = "cuda_synchronize"
    /\ Emit(r, Ev(r, "cuda.synchronize", "", "cuda", NoLr))
    /\ Goto(r, IF local_rank(r) > 0 THEN "dataset_rest" ELSE "loaders")
    /\ UNCHANGED <<args, env, failedAt, setupVars, objVars, loopVars, fwVars>>

\* (local rank > 0) dataset1 = datasets.MNIST('./data', train=True, download=False, ...)
DatasetRest(r) ==
    /\ pc[r] = "dataset_rest"
    /\ Emit(r, Ev(r, "datasets.MNIST", "train", "", NoLr))
    /\ Goto(r, "loaders")
    /\ UNCHANGED <<args, env, failedAt, setupVars, objVars, loopVars, fwVars>>

\* dataset2, train_sampler (DistributedSampler), test_sampler, the two DataLoaders
BuildLoaders(r) ==
    /\ pc[r] = "loaders"
    /\ EmitAll(r, << Ev(r, "datasets.MNIST", "test", "", NoLr),
                     Ev(r, "DataLoader", "train",
                        IF "pin_memory" \in train_kwargs[r] THEN "cuda" ELSE "", NoLr),
                     Ev(r, "DataLoader", "test",
                        IF "pin_memory" \in test_kwargs[r] THEN "cuda" ELSE "", NoLr) >>)
    /\ Goto(r, "model")
    /\ UNCHANGED <<args, env, failedAt, setupVars, objVars, loopVars, fwVars>>

\* model = Net().to(device); optimizer = torch.optim.AdamW(model.parameters(), lr=args.lr);
\* then `if args.enable_msamp`
BuildModelOptimizer(r) ==
    /\ pc[r] = "model"
    /\ model' = [model EXCEPT ![r] = "net"]
    /\ optimizer' = [optimizer EXCEPT ![r] = "adamw"]
    /\ lr' = [lr EXCEPT ![r]["adamw"] = <<LrNum, LrDen>>]
    /\ EmitAll(r, << Ev(r, "Net.to", "net", device[r], NoLr),
                     Ev(r, "AdamW", "adamw", "", <<LrNum, LrDen>>) >>)
    /\ Goto(r, IF args.enable_msamp THEN "msamp" ELSE "ddp")
    /\ UNCHANGED <<args, env, failedAt, setupVars, scheduler, loopVars, params, coll, ckpt, testSnap>>

\* variant: msamp.initialize is called and what it returns is dropped
MsampInitialize_Discard(r) ==
    /\ pc[r] = "msamp"
    /\ Emit(r, Ev(r, "msamp.initialize", model[r], "", NoLr))
    /\ Goto(r, "ddp")
    /\ UNCHANGED <<args, env, failedAt, setupVars, objVars, loopVars, fwVars>>

\* model, optimizer = msamp.initialize(model, optimizer, opt_level=args.opt_level)
MsampInitialize(r) ==
    /\ pc[r] = "msamp"
    /\ model' = [model EXCEPT ![r] = "msamp_model"]
    /\ optimizer' = [optimizer EXCEPT ![r] = "msamp_opt"]
    /\ lr' = [lr EXCEPT ![r]["msamp_opt"] = lr[r][optimizer[r]]]
    /\ Emit(r, Ev(r, "msamp.initialize", model[r], "", NoLr))
    /\ Goto(r, "ddp")
    /\ UNCHANGED <<args, env, failedAt, setupVars, scheduler, loopVars, params, coll, ckpt, testSnap>>

\* model = DistributedDataParallel(model, device_ids=[local_rank], output_device=local_rank)
\* (the constructor broadcasts rank 0's parameters: a collective)
DDPWrap(r) ==
    /\ pc[r] = "ddp"
    /\ EnterCollective(r, <<"ddp_broadcast", 0, -1>>)
    /\ model' = [model EXCEPT ![r] = DDP(model[r])]
    /\ Emit(r, Ev(r, "DistributedDataParallel", model[r], "device_ids", NoLr))
    /\ Goto(r, "ddp_wait")
    /\ UNCHANGED <<args, env, failedAt, setupVars, optimizer, scheduler, loopVars, lr, params, ckpt, testSnap>>

DDPWrapReturn(r) ==
    /\ pc[r] = "ddp_wait"
    /\ CollectiveComplete(r)
    /\ Goto(r, "scheduler")
    /\ UNCHANGED <<args, env, failedAt, setupVars, objVars, loopVars, fwVars, trace>>

\* variant: the scheduler is built on the AdamW made before msamp.initialize
MakeScheduler_Original(r) ==
    /\ pc[r] = "scheduler"
    /\ scheduler' = [scheduler EXCEPT ![r] = "adamw"]
    /\ Emit(r, Ev(r, "StepLR", "adamw", "", NoLr))
    /\ EpochLoop(r)
    /\ UNCHANGED <<args, env, failedAt, setupVars, model, optimizer, batch_idx, fetched, test_idx, fwVars>>

\* scheduler = StepLR(optimizer, step_size=1, gamma=args.gamma); then the epoch loop
MakeScheduler(r) ==
    /\ pc[r] = "scheduler"
    /\ scheduler' = [scheduler EXCEPT ![r] = optimizer[r]]
    /\ Emit(r, Ev(r, "StepLR", optimizer[r], "", NoLr))
    /\ EpochLoop(r)
    /\ UNCHANGED <<args, env, failedAt, setupVars, model, optimizer, batch_idx, fetched, test_idx, fwVars>>

\* train_sampler.set_epoch(epoch)
SetEpoch(r) ==
    /\ pc[r] = "set_epoch"
    /\ Emit(r, Ev(r, "set_epoch", "", "", NoLr))
    /\ Goto(r, "train")
    /\ UNCHANGED <<args, env, failedAt, setupVars, objVars, loopVars, fwVars>>

\* ------------------------------------------------------------------ train

\* train(args, model, device, train_loader, optimizer, epoch): model.train(), then
\* the head of the batch loop
TrainEnter(r) ==
    /\ pc[r] = "train"
    /\ BatchLoop(r, 0, FALSE, <<Ev(r, "train", model[r], "", NoLr)>>)
    /\ UNCHANGED <<args, env, failedAt, setupVars, objVars, epoch, test_idx, fwVars>>

\* data, target = data.to(device), target.to(device)
ToDevice(r) ==
    /\ pc[r] = "to_device"
    /\ Emit(r, Ev(r, "data.to", "", device[r], NoLr))
    /\ Goto(r, "zero_grad")
    /\ UNCHANGED <<args, env, failedAt, setupVars, objVars, loopVars, fwVars>>

\* optimizer.zero_grad()
ZeroGrad(r) ==
    /\ pc[r] = "zero_grad"
    /\ Emit(r, Ev(r, "zero_grad", optimizer[r], "", NoLr))
    /\ Goto(r, "forward")
    /\ UNCHANGED <<args, env, failedAt, setupVars, objVars, loopVars, fwVars>>

\* output = model(data); loss = F.nll_loss(output, target)
Forward(r) ==
    /\ pc[r] = "forward"
    /\ Emit(r, Ev(r, "forward", model[r], "", NoLr))
    /\ Goto(r, "backward")
    /\ UNCHANGED <<args, env, failedAt, setupVars, objVars, loopVars, fwVars>>

\* loss.backward(): under DDP the gradients are all-reduced here
Backward(r) ==
    /\ pc[r] = "backward"
    /\ EnterCollective(r, <<"grad_all_reduce", epoch[r], batch_idx[r]>>)
    /\ Emit(r, Ev(r, "backward", model[r], "", NoLr))
    /\ Goto(r, "backward_wait")
    /\ UNCHANGED <<args, env, failedAt, setupVars, objVars, loopVars, lr, params, ckpt, testSnap>>

\* backward returns; then `if hasattr(optimizer, 'all_reduce_grads')`
BackwardReturn(r) ==
    /\ pc[r] = "backward_wait"
    /\ CollectiveComplete(r)
    /\ Goto(r, IF CallsAllReduceGrads(r) THEN "all_reduce_grads" ELSE "optimizer_step")
    /\ UNCHANGED <<args, env, failedAt, setupVars, objVars, loopVars, fwVars, trace>>

\* optimizer.all_reduce_grads(model)
AllReduceGrads(r) ==
    /\ pc[r] = "all_reduce_grads"
    /\ EnterCollective(r, <<"all_reduce_grads", epoch[r], batch_idx[r]>>)
    /\ Emit(r, Ev(r, "all_reduce_grads", optimizer[r], "", NoLr))
    /\ Goto(r, "all_reduce_grads_wait")
    /\ UNCHANGED <<args, env, failedAt, setupVars, objVars, loopVars, lr, params, ckpt, testSnap>>

AllReduceGradsReturn(r) ==
    /\ pc[r] = "all_reduce_grads_wait"
    /\ CollectiveComplete(r)
    /\ Goto(r, "optimizer_step")
    /\ UNCHANGED <<args, env, failedAt, setupVars, objVars, loopVars, fwVars, trace>>

\* optimizer.step(); then the logging condition, or on to the end of the iteration
OptimizerStep(r) ==
    /\ pc[r] = "optimizer_step"
    /\ params' = [params EXCEPT ![r] = @ + 1]
    /\ LET call == Ev(r, "optimizer.step", optimizer[r], "", lr[r][optimizer[r]])
       IN IF LogsBatch(r)
             THEN /\ Emit(r, call)
                  /\ Goto(r, "log")
                  /\ UNCHANGED <<batch_idx, fetched>>
             ELSE BatchLoop(r, fetched[r], TRUE, <<call>>)
    /\ UNCHANGED <<args, env, failedAt, setupVars, objVars, epoch, test_idx, lr, coll, ckpt, testSnap>>

\* print('Train Epoch: ...', loss.item()); then `if args.dry_run: break` and the loop
LogTrain(r) ==
    /\ pc[r] = "log"
    /\ BatchLoop(r, fetched[r], TRUE, <<Ev(r, "print", "train", "", NoLr)>>)
    /\ UNCHANGED <<args, env, failedAt, setupVars, objVars, epoch, test_idx, fwVars>>

\* ------------------------------------------------------------------- test

\* for data, target in test_loader, entered with k batches already fetched
TestLoop(r, k) ==
    IF k < env.n_test
       THEN /\ test_idx' = [test_idx EXCEPT ![r] = k + 1]
            /\ Goto(r, "test_batch")
       ELSE /\ test_idx' = [test_idx EXCEPT ![r] = k]
            /\ Goto(r, "test_report")

\* test(model.module, device, test_loader): model.eval(); test_loss = 0; correct = 0
TestEnter(r) ==
    /\ pc[r] = "test"
    /\ testSnap' = [testSnap EXCEPT ![r] = [params |-> params[r], ncoll |-> Len(coll[r])]]
    /\ Emit(r, [TestEv(r, "test", module(model[r]), "") EXCEPT !.batch = 0])
    /\ TestLoop(r, 0)
    /\ UNCHANGED <<args, env, failedAt, setupVars, objVars, epoch, batch_idx, fetched, lr, params, coll, ckpt>>

\* data.to(device); output = model(data); test_loss += ...; correct += ...
TestBatch(r) ==
    /\ pc[r] = "test_batch"
    /\ EmitAll(r, << TestEv(r, "test.data.to", "", device[r]),
                     TestEv(r, "test.forward", module(model[r]), "") >>)
    /\ TestLoop(r, test_idx[r])
    /\ UNCHANGED <<args, env, failedAt, setupVars, objVars, epoch, batch_idx, fetched, fwVars>>

\* test_loss /= len(test_loader.dataset); print(...)
TestReport(r) ==
    /\ pc[r] = "test_report"
    /\ Emit(r, TestEv(r, "test.return", "", ""))
    /\ Goto(r, "scheduler_step")
    /\ UNCHANGED <<args, env, failedAt, setupVars, objVars, loopVars, fwVars>>

\* --------------------------------------------------- main: end of an epoch

\* StepLR with step_size=1: every step multiplies the optimizer's lr by gamma
Decay(rate) == <<rate[1] * GammaNum, rate[2] * GammaDen>>

\* scheduler.step(); then the epoch loop
SchedulerStep(r) ==
    /\ pc[r] = "scheduler_step"
    /\ lr' = [lr EXCEPT ![r][scheduler[r]] = Decay(@)]
    /\ Emit(r, Ev(r, "scheduler.step", scheduler[r], "", Decay(lr[r][scheduler[r]])))
    /\ EpochLoop(r)
    /\ UNCHANGED <<args, env, failedAt, setupVars, objVars, batch_idx, fetched, test_idx, params, coll, ckpt, testSnap>>

\* torch.save(model.state_dict(), 'mnist_cnn.pt')
SaveModel(r) ==
    /\ pc[r] = "save_model"
    /\ ckpt' = Append(ckpt, r)
    /\ Emit(r, Ev(r, "torch.save", model[r], "", NoLr))
    /\ Goto(r, "done")
    /\ UNCHANGED <<args, env, failedAt, setupVars, objVars, loopVars, lr, params, coll, testSnap>>

\* ---------------------------------------------------------------- failure

\* variant: a failure is caught and main is run again
Fail_Restart(r) ==
    /\ pc[r] \notin {"done", "error"}
    /\ failedAt' = [failedAt EXCEPT ![r] = pc[r]]
    /\ Goto(r, "parse_args")
    /\ UNCHANGED <<args, env, setupVars, objVars, loopVars, fwVars, trace>>

\* Any statement may raise (a CUDA error, a communication timeout, ...); nothing
\* in the script catches it, so the process ends there.
Fail(r) ==
    /\ pc[r] \notin {"done", "error"}
    /\ failedAt' = [failedAt EXCEPT ![r] = pc[r]]
    /\ Goto(r, "error")
    /\ UNCHANGED <<args, env, setupVars, objVars, loopVars, fwVars, trace>>

Step(r) ==
    \/ ParseArgs(r) \/ CudaSetDevice(r) \/ InitProcessGroup(r) \/ InitProcessGroupReturn(r)
    \/ Configure(r) \/ DatasetFirst(r) \/ CudaSynchronize(r) \/ DatasetRest(r)
    \/ BuildLoaders(r) \/ BuildModelOptimizer(r) \/ MsampInitialize(r)
    \/ DDPWrap(r) \/ DDPWrapReturn(r) \/ MakeScheduler(r) \/ SetEpoch(r)
    \/ TrainEnter(r) \/ ToDevice(r) \/ ZeroGrad(r) \/ Forward(r)
    \/ Backward(r) \/ BackwardReturn(r) \/ AllReduceGrads(r) \/ AllReduceGradsReturn(r)
    \/ OptimizerStep(r) \/ LogTrain(r)
    \/ TestEnter(r) \/ TestBatch(r) \/ TestReport(r)
    \/ SchedulerStep(r) \/ SaveModel(r)

Next == \E r \in Ranks : Step(r) \/ Fail(r)

Spec == Init /\ [][Next]_vars

\* The runs in which no call fails, every rank being a process of its own that
\* keeps running while it can.
NextNoFail == \E r \in Ranks : Step(r)

FairSpec == Init /\ [][NextNoFail]_vars /\ \A r \in Ranks : WF_vars(Step(r))

\* ------------------------------------------------- reading a rank's trace

Proj(s, ops) == SelectSeq(s, LAMBDA e : e.op \in ops)
Count(s, ops) == Cardinality({i \in 1 .. Len(s) : s[i].op \in ops})
IsPrefix(a, b) == Len(a) <= Len(b) /\ \A i \in 1 .. Len(a) : a[i] = b[i]
OpEpoch(s) == [i \in 1 .. Len(s) |-> <<s[i].op, s[i].epoch>>]
Has(s, op) == \E i \in 1 .. Len(s) : s[i].op = op

RECURSIVE Pow(_, _)
Pow(b, n) == IF n <= 0 THEN 1 ELSE b * Pow(b, n - 1)

AllDone == \A r \in Ranks : pc[r] = "done"

\* ------------------------------------------------------------------ C1

EpochOps == {"set_epoch", "train", "train.return", "test", "test.return", "scheduler.step"}

EpochPattern(r) ==
    <<"set_epoch", "train", "train.return">>
        \o (IF r = 0 THEN <<"test", "test.return">> ELSE <<>>)
        \o <<"scheduler.step">>

ExpectedEpochs(r) ==
    LET pat == EpochPattern(r)
        n == Len(pat)
    IN [i \in 1 .. (args.epochs * n) |-> <<pat[((i - 1) % n) + 1], ((i - 1) \div n) + 1>>]

\* C1: on every rank the epoch-level calls are, in order and for epoch 1, 2, ...,
\* args.epochs: set_epoch, train (to its return), test (to its return, on rank 0
\* only), one scheduler.step; a rank that finishes main has run exactly that.
C1_EpochOrder ==
    \A r \in Ranks :
        LET got == OpEpoch(Proj(trace[r], EpochOps))
        IN /\ IsPrefix(got, ExpectedEpochs(r))
           /\ pc[r] = "done" => got = ExpectedEpochs(r)

C1_Witness == AllDone /\ args.epochs >= 2

\* ------------------------------------------------------------------ C2

TrainingOps == {"set_epoch", "train", "data.to", "zero_grad", "forward", "backward",
                "all_reduce_grads", "optimizer.step"}

Phase(op) ==
    CASE op = "parse_args" -> 1
      [] op = "init_process_group" -> 2
      [] op \in {"datasets.MNIST", "DataLoader"} -> 3
      [] op \in {"Net.to", "AdamW"} -> 4
      [] op = "msamp.initialize" -> 5
      [] op = "DistributedDataParallel" -> 6
      [] op = "StepLR" -> 7
      [] op \in TrainingOps -> 8
      [] OTHER -> 0

\* the phase that follows phase k (msamp.initialize only when it is enabled)
NextPhase(k) == IF k = 4 /\ ~args.enable_msamp THEN 6 ELSE k + 1

\* phases made of several calls
LongPhases == {3, 4, 8}

UsesMsampObjects(e) ==
    /\ e.op = "DistributedDataParallel" => e.obj = "msamp_model"
    /\ e.op \in {"StepLR", "scheduler.step", "zero_grad", "all_reduce_grads", "optimizer.step"}
          => e.obj = "msamp_opt"
    /\ e.op \in {"train", "forward", "backward"} => e.obj = "ddp(msamp_model)"
    /\ e.op \in {"test", "test.forward"} => e.obj = "msamp_model"

\* C2: the setup phases of main happen once each and in the order argument parsing,
\* process group, datasets and loaders, model and optimizer, msamp.initialize, DDP
\* wrap, scheduler, training; msamp.initialize is called iff enable_msamp, and then
\* DDP, the scheduler and every training and test step use what it returned.
C2_SetupOrder ==
    \A r \in Ranks :
        LET t == trace[r]
            ph == SelectSeq([i \in 1 .. Len(t) |-> Phase(t[i].op)], LAMBDA k : k # 0)
        IN /\ Len(ph) > 0 => ph[1] = 1
           /\ \A i \in 1 .. (Len(ph) - 1) :
                  \/ ph[i + 1] = NextPhase(ph[i])
                  \/ ph[i + 1] = ph[i] /\ ph[i] \in LongPhases
           /\ Has(t, "msamp.initialize") => args.enable_msamp
           /\ args.enable_msamp => \A i \in 1 .. Len(t) : UsesMsampObjects(t[i])

C2_Witness ==
    /\ args.enable_msamp
    /\ \E r \in Ranks : pc[r] = "done" /\ Has(trace[r], "optimizer.step")
    /\ Has(trace[0], "test.forward")

\* ------------------------------------------------------------------ C3

\* C3: 'mnist_cnn.pt' is written at most once in the whole run, only when save_model
\* is set, only by rank 0, and only after rank 0 has finished all args.epochs epochs
\* (the last scheduler.step included).
C3_Checkpoint ==
    /\ Len(ckpt) <= 1
    /\ ~args.save_model => ckpt = <<>>
    /\ \A i \in 1 .. Len(ckpt) :
           /\ get_rank(ckpt[i]) = 0
           /\ args.save_model
           /\ Count(trace[ckpt[i]], {"scheduler.step"}) = args.epochs
           /\ Count(trace[ckpt[i]], {"train.return"}) = args.epochs
           /\ pc[ckpt[i]] = "done"

C3_Witness == Len(ckpt) = 1 /\ args.epochs >= 1 /\ AllDone

\* ------------------------------------------------------------------ C4

\* everything rank r holds, its program position aside
RankState(r) ==
    <<use_cuda[r], device[r], train_kwargs[r], test_kwargs[r], model[r], optimizer[r],
      scheduler[r], epoch[r], batch_idx[r], fetched[r], test_idx[r], lr[r], params[r],
      coll[r], testSnap[r], trace[r]>>

Writers == {ckpt[i] : i \in 1 .. Len(ckpt)}

\* the calls a step adds to a rank's trace are calls the rank has not made before
FreshCalls(old, new) ==
    \A j \in (Len(old) + 1) .. Len(new) : \A i \in 1 .. (j - 1) : new[i] # new[j]

C4_Step ==
    \A r \in Ranks :
        \* a failure ends the rank at the failing statement, which has had no effect
        /\ failedAt'[r] # failedAt[r] =>
               /\ pc[r] # "error" /\ pc'[r] = "error" /\ failedAt'[r] = pc[r]
               /\ RankState(r)' = RankState(r) /\ ckpt' = ckpt
        /\ (pc'[r] = "error" /\ pc[r] # "error") => failedAt'[r] # failedAt[r]
        \* a failed rank executes nothing more
        /\ pc[r] = "error" =>
               /\ pc'[r] = "error" /\ failedAt'[r] = failedAt[r]
               /\ RankState(r)' = RankState(r)
        \* nothing already executed is executed again
        /\ IsPrefix(trace[r], trace'[r]) /\ FreshCalls(trace[r], trace'[r])

C4_State ==
    \A r \in Ranks :
        /\ pc[r] = "error" <=> failedAt[r] # ""
        /\ pc[r] = "error" => r \notin Writers

\* C4: no retry and no recovery.  A rank on which a call fails ends in the error
\* state at that statement; it executes no further step, re-executes none, and a
\* failed rank has written no checkpoint.
C4_NoRetry == [][C4_Step]_vars /\ []C4_State

C4_Witness ==
    \E r \in Ranks :
        /\ pc[r] = "error" /\ failedAt[r] = "backward_wait" /\ epoch[r] = 2
        /\ \E q \in Ranks : q # r /\ pc[q] = "backward_wait"

\* ------------------------------------------------------------------ C5

\* C5 (as stated): with --dry-run a rank that finishes main has performed exactly one
\* forward/backward/optimizer.step iteration over the whole run.  (Runs of zero
\* epochs, which train nothing at all, are left aside.)
C5_DryRunSingleIteration ==
    \A r \in Ranks :
        (args.dry_run /\ args.epochs >= 1 /\ pc[r] = "done") =>
            /\ Count(trace[r], {"forward"}) = 1
            /\ Count(trace[r], {"backward"}) = 1
            /\ Count(trace[r], {"optimizer.step"}) = 1

\* ------------------------------------------------------------------ C6

CudaSpecific == {"cuda", "nccl", "device_ids"}

\* C6 (as stated): with --no-cuda everything is placed on the cpu, the loaders get no
\* CUDA options and no CUDA-specific call (cuda.set_device, cuda.synchronize, the
\* NCCL process group, DDP device_ids) is made.
C6_NoCudaStep ==
    args.no_cuda =>
        \A r \in Ranks :
            /\ device[r] \in {"unset", "cpu"}
            /\ train_kwargs[r] \subseteq {"batch_size"}
            /\ test_kwargs[r] \subseteq {"batch_size"}
            /\ \A i \in 1 .. Len(trace[r]) : trace[r][i].dev \notin CudaSpecific

\* ------------------------------------------------------------------ C7

IterOps == {"zero_grad", "forward", "backward", "all_reduce_grads", "optimizer.step"}

IterPattern(r) ==
    <<"zero_grad", "forward", "backward">>
        \o (IF hasattr_all_reduce_grads(optimizer[r]) THEN <<"all_reduce_grads">> ELSE <<>>)
        \o <<"optimizer.step">>

\* C7: the optimizer-related calls of a rank are whole iterations zero_grad, forward,
\* backward, all_reduce_grads (iff the optimizer has it), optimizer.step, each on one
\* batch of one epoch and on successive batches; when train returns, the epoch has
\* made as many optimizer.step calls as batches consumed: all of them, or one under
\* dry_run.
C7_IterationOrder ==
    \A r \in Ranks :
        LET t == trace[r]
            p == Proj(t, IterOps)
            pat == IterPattern(r)
            n == Len(pat)
        IN /\ \A i \in 1 .. Len(p) : p[i].op = pat[((i - 1) % n) + 1]
           /\ \A i \in 1 .. (Len(p) - 1) :
                  IF i % n # 0
                     THEN p[i + 1].epoch = p[i].epoch /\ p[i + 1].batch = p[i].batch
                     ELSE \/ p[i + 1].epoch = p[i].epoch /\ p[i + 1].batch = p[i].batch + 1
                          \/ p[i + 1].epoch = p[i].epoch + 1 /\ p[i + 1].batch = 0
           /\ \A k \in 1 .. Len(t) :
                  t[k].op = "train.return" =>
                      Cardinality({i \in 1 .. Len(p) :
                                      p[i].op = "optimizer.step" /\ p[i].epoch = t[k].epoch})
                          = (IF args.dry_run THEN 1 ELSE env.n_batches)

C7_Witness ==
    /\ ~args.dry_run /\ env.n_batches >= 2 /\ env.msamp_all_reduce
    /\ \E r \in Ranks : pc[r] = "done" /\ Count(trace[r], {"optimizer.step"}) >= 2

\* ------------------------------------------------------------------ C8

ExpectedLr(e) == <<LrNum * Pow(GammaNum, e - 1), LrDen * Pow(GammaDen, e - 1)>>

\* C8: every optimizer.step of epoch e runs with lr * gamma^(e-1); scheduler.step
\* comes once per epoch, after the epoch's training has returned and so after its
\* optimizer.step calls; a rank that finishes has stepped the scheduler exactly
\* args.epochs times, dry_run or not.
C8_LrDecay ==
    \A r \in Ranks :
        LET t == trace[r]
            p == Proj(t, {"optimizer.step", "train.return", "scheduler.step"})
        IN /\ \A i \in 1 .. Len(p) :
                  /\ p[i].op = "optimizer.step" => p[i].lr = ExpectedLr(p[i].epoch)
                  /\ p[i].op = "scheduler.step" =>
                         /\ i > 2
                         /\ p[i - 1].op = "train.return" /\ p[i - 1].epoch = p[i].epoch
                         /\ p[i - 2].op = "optimizer.step" /\ p[i - 2].epoch = p[i].epoch
           /\ pc[r] = "done" => Count(t, {"scheduler.step"}) = args.epochs

C8_Witness ==
    /\ args.epochs >= 2 /\ args.enable_msamp
    /\ \E r \in Ranks : r # 0 /\ pc[r] = "done" /\ Count(trace[r], {"scheduler.step"}) = 2

\* ------------------------------------------------------------------ C9

Min(a, b) == IF a <= b THEN a ELSE b
WaitingInAllReduce(r) == pc[r] \in {"backward_wait", "all_reduce_grads_wait"}
InTest(r) == pc[r] \in {"test_batch", "test_report"}

\* the i-th collective is the same one on every rank that has reached it
CollectivesMatch ==
    \A r, q \in Ranks :
        \A i \in 1 .. Min(Len(coll[r]), Len(coll[q])) : coll[r][i] = coll[q][i]

\* ranks that have finished training epoch e made the same number of backward calls
SameBackwardCount ==
    \A r, q \in Ranks : \A e \in 1 .. args.epochs :
        (\E i \in 1 .. Len(trace[r]) : trace[r][i].op = "train.return" /\ trace[r][i].epoch = e)
        /\ (\E i \in 1 .. Len(trace[q]) : trace[q][i].op = "train.return" /\ trace[q][i].epoch = e)
        => Cardinality({i \in 1 .. Len(trace[r]) :
                           trace[r][i].op = "backward" /\ trace[r][i].epoch = e})
           = Cardinality({i \in 1 .. Len(trace[q]) :
                           trace[q][i].op = "backward" /\ trace[q][i].epoch = e})

\* test() runs on the bare module, enters no collective and leaves the parameters alone
TestIsLocal ==
    \A r \in Ranks :
        /\ InTest(r) => params[r] = testSnap[r].params /\ Len(coll[r]) = testSnap[r].ncoll
        /\ \A i \in 1 .. Len(trace[r]) :
               trace[r][i].op \in {"test", "test.forward"} => trace[r][i].obj \in {"net", "msamp_model"}
        /\ Has(trace[r], "test") => get_rank(r) = 0

====
